---- MODULE Spec2Model ----
(***************************************************************************)
(* A model of the workgroup library: the entry points Work, WorkFor and    *)
(* WorkChan (src/work.go) fan a group of workers out through an Executer,  *)
(* wait for them on a sync.WaitGroup, hand every outcome to a Manager and  *)
(* return the Manager's result.                                            *)
(*                                                                         *)
(* The orchestration (the completion counter, the submitted closure with   *)
(* its two deferred calls, the wait and the return) is translated from     *)
(* src/work.go.  The worker bodies and the recording AccumulateManager are *)
(* those of the tests (src/work_test.go, src/manager_test.go).  The        *)
(* Executer variants, the Manager policies and the decorators Recover and  *)
(* Repanic are not among the source files; they are modelled from sections *)
(* 3 and 4 of the specification.  Group workers (src/work.go:68-72) start  *)
(* an inner run of the same code with the Executer of the outer run.       *)
(*                                                                         *)
(* Workers are numbered 0..n-1 as WorkFor numbers them.  One step of the   *)
(* model is one atomic operation of one task (a WaitGroup call, an atomic  *)
(* operation of the Manager, a channel operation) together with the local  *)
(* computation that follows it.                                            *)
(***************************************************************************)
EXTENDS Integers, Sequences, FiniteSets, TLC

\* Bounds of the model.
MaxWorkers == 2
MaxK == 2
MaxInner == 1

VARIABLES
    entry,      \* the entry point called: "Work", "WorkFor" or "WorkChan"
    e,          \* the Executer: "Unbounded", "Bounded" or "Pool"
    k,          \* the capacity of Bounded(k), the size of Pool(scope, k)
    m,          \* the Manager policy
    deco,       \* the decorator around it: "None", "Recover" or "Repanic"
    n,          \* the number of workers (for WorkChan: sent before the close)
    checking,   \* the worker bodies read ctx.Done() right before returning
    nested,     \* the workers are Group workers that share the Executer e
    ni,         \* the number of workers of each such Group
    pc,         \* where the calling task is in the entry point
    next,       \* the index of the next worker of the submission loop
    wg,         \* the sync.WaitGroup's counter
    wpc,        \* wpc[i]: where the closure of worker i is
    err,        \* err[i]: the closure's variable err
    fault,      \* fault[i]: the body of worker i panicked
    counts,     \* counts[i]: how often the body of worker i has run
    managed,    \* managed[i]: how many Manage calls of worker i have returned
    sn,         \* sn[i]: the sequence number Manage returned to worker i (0: none)
    seq,        \* the Manager's completion-sequence counter
    decided,    \* the Manager's "have we decided yet" flag
    first,      \* the outcome the Manager recorded when it decided
    succeeded,  \* CancelOnFirstSuccess: a nil outcome has been seen
    Errors,     \* AccumulateManager.Errors
    cancelled,  \* the run's child scope has been cancelled (cancel() was called)
    callerDone, \* the caller's scope, which owns the Pool, has been cancelled
    poolLive,   \* the Pool's tasks that have not exited
    result,     \* what the entry point returned
    crashed,    \* a panic left a task: the process is gone
    ipc,        \* ipc[i]: where the body of Group worker i is in its inner run
    inext,      \* inext[i]: the next worker of that run's submission loop
    iwg,        \* iwg[i]: the counter of that run's WaitGroup
    iwpc        \* iwpc[i][j]: where the closure of its worker j is

vars == <<entry, e, k, m, deco, n, checking, nested, ni, pc, next, wg, wpc,
          err, fault, counts, managed, sn, seq, decided, first, succeeded,
          Errors, cancelled, callerDone, poolLive, result, crashed, ipc,
          inext, iwg, iwpc>>

config == <<entry, e, k, m, deco, n, checking, nested, ni>>
inner == <<ipc, inext, iwg, iwpc>>
worker == <<wpc, err, fault, counts, managed, sn>>
manager == <<seq, decided, first, succeeded, Errors>>

Workers == 0 .. (MaxWorkers - 1)
Ids == 0 .. (n - 1)
Inner == 0 .. (MaxInner - 1)

EntryPoints == {"Work", "WorkFor", "WorkChan"}
Executers == {"Unbounded", "Bounded", "Pool"}
Managers == {"CancelNeverFirstError", "CancelOnFirstError",
             "CancelOnFirstSuccess", "CancelOnFirstComplete"}
Decorators == {"None", "Recover", "Repanic"}

\* Outcomes: nil, the error of worker i ("worker %d failed"), context.Canceled,
\* and the FaultOutcome "panic: worker %d failed" of a recovered panic.
Nil == [kind |-> "nil", index |-> 0]
Failed(i) == [kind |-> "failed", index |-> i]
Canceled == [kind |-> "canceled", index |-> 0]
PanicError(i) == [kind |-> "panic", index |-> i]

\* ctx.Done() of the run's child scope: closed by cancel() and by the
\* cancellation of the scope it was derived from.
Done == cancelled \/ callerDone

\* The pcs of a closure that the Executer has started and that has not returned.
ActivePcs == {"body", "ret", "seq", "rec", "managed", "done"}
Active == {i \in Workers : wpc[i] \in ActivePcs}

\* The same for the closures of the inner runs, and how many actions of
\* either kind the shared Executer is running.
InnerActive == {ij \in Workers \X Inner : iwpc[ij[1]][ij[2]] \in {"body", "done"}}
Busy == Cardinality(Active) + Cardinality(InnerActive)

TypeOK ==
    /\ entry \in EntryPoints /\ e \in Executers /\ m \in Managers
    /\ deco \in Decorators
    /\ k \in 0 .. MaxK /\ n \in 0 .. MaxWorkers
    /\ checking \in BOOLEAN /\ nested \in BOOLEAN /\ ni \in 0 .. MaxInner
    /\ ipc \in [Workers -> {"idle", "loop", "wait", "returned"}]
    /\ inext \in [Workers -> 0 .. ni] /\ iwg \in [Workers -> Int]
    /\ iwpc \in [Workers -> [Inner -> {"idle", "queued", "body", "done", "fin"}]]
    /\ pc \in {"begin", "loop", "add", "exec", "wait", "result", "returned",
              "panicked"}
    /\ next \in 0 .. n
    /\ wg \in Int
    /\ wpc \in [Workers -> {"idle", "queued", "fin"} \cup ActivePcs]
    /\ fault \in [Workers -> BOOLEAN]
    /\ counts \in [Workers -> Nat] /\ managed \in [Workers -> Nat]
    /\ sn \in [Workers -> Nat] /\ seq \in Nat
    /\ decided \in BOOLEAN /\ succeeded \in BOOLEAN
    /\ cancelled \in BOOLEAN /\ callerDone \in BOOLEAN /\ crashed \in BOOLEAN
    /\ poolLive \in 0 .. k

\* The state when the entry point has been called with these arguments: the
\* child scope is derived (src/work.go:38), the WaitGroup is new (line 41).
InitGroups(entries, executers, managers, decorators, checks, nestings) ==
    /\ entry \in entries
    /\ e \in executers
    /\ k \in (IF e = "Unbounded" THEN {0} ELSE 1 .. MaxK)
    /\ m \in managers
    /\ deco \in decorators
    /\ n \in 0 .. MaxWorkers
    /\ checking \in checks
    /\ pc = (IF entry = "WorkChan" THEN "loop" ELSE "begin")
    /\ next = 0
    /\ wg = 0
    /\ wpc = [i \in Workers |-> "idle"]
    /\ err = [i \in Workers |-> Nil]
    /\ fault = [i \in Workers |-> FALSE]
    /\ counts = [i \in Workers |-> 0]
    /\ managed = [i \in Workers |-> 0]
    /\ sn = [i \in Workers |-> 0]
    /\ seq = 0
    /\ decided = FALSE
    /\ first = Nil
    /\ succeeded = FALSE
    /\ Errors = << >>
    /\ cancelled = FALSE
    /\ callerDone = FALSE
    /\ poolLive = (IF e = "Pool" THEN k ELSE 0)
    /\ result = Nil
    /\ crashed = FALSE
    /\ nested \in nestings
    /\ ni \in (IF nested THEN 0 .. MaxInner ELSE {0})
    /\ ipc = [i \in Workers |-> "idle"]
    /\ inext = [i \in Workers |-> 0]
    /\ iwg = [i \in Workers |-> 0]
    /\ iwpc = [i \in Workers |-> [j \in Inner |-> "idle"]]

\* The same with plain workers, which start no run of their own.
InitRun(entries, executers, managers, decorators, checks) ==
    InitGroups(entries, executers, managers, decorators, checks, {FALSE})

\* The same with one of the four policies itself as the Manager.
InitWith(entries, executers, managers, checks) ==
    InitRun(entries, executers, managers, {"None"}, checks)

Init ==
    InitGroups(EntryPoints, Executers, Managers, Decorators, BOOLEAN, BOOLEAN)

(***************************************************************************)
(* The Executer (specification, sections 3 and 4.1).                       *)
(***************************************************************************)

\* An Executer that admits one action too many.
CanStartOneMore ==
    CASE e = "Unbounded" -> TRUE
      [] e = "Bounded" -> Busy <= k
      [] e = "Pool" -> Busy <= poolLive

\* Whether the Executer may start one more action now: always for Unbounded,
\* while a slot of the semaphore is free for Bounded(k), while a task of the
\* pool is idle for Pool(scope, k).
CanStart ==
    CASE e = "Unbounded" -> TRUE
      [] e = "Bounded" -> Busy < k
      [] e = "Pool" -> Busy < poolLive

\* An Execute that takes the slot itself, so that its caller waits for one.
ExecuteWaitsForSlot(i) == CanStart /\ wpc' = [wpc EXCEPT ![i] = "queued"]

\* Execute(action): Unbounded and Bounded spawn a task for the action, Pool
\* puts it on its queue; none of them waits.
Execute(i) == wpc' = [wpc EXCEPT ![i] = "queued"]

\* The Executer starts the action of worker i, whose body begins to run.
Start(i) ==
    /\ ~crashed
    /\ wpc[i] = "queued"
    /\ CanStart
    /\ wpc' = [wpc EXCEPT ![i] = "body"]
    /\ UNCHANGED <<config, inner, pc, next, wg, err, fault, counts, managed, sn,
                   manager, cancelled, callerDone, poolLive, result, crashed>>

\* An idle task of the pool sees its scope's done signal and exits.
PoolExit ==
    /\ ~crashed
    /\ e = "Pool"
    /\ callerDone
    /\ Busy < poolLive
    /\ poolLive' = poolLive - 1
    /\ UNCHANGED <<config, inner, pc, next, wg, worker, manager, cancelled,
                   callerDone, result, crashed>>

(***************************************************************************)
(* The Manager (specification, section 4.2) and the recording              *)
(* AccumulateManager of the tests.                                         *)
(***************************************************************************)

\* Whether the Manage call that handles this outcome is the one that records
\* it as the run's outcome: it wins the compare-and-set on the "decided" flag,
\* which every policy but CancelOnFirstComplete tries for a failure only.
Records(outcome) ==
    /\ ~decided
    /\ (m = "CancelOnFirstComplete" \/ outcome # Nil)

\* CancelOnFirstSuccess: whether the call is the first to report a success.
Succeeds(outcome) ==
    m = "CancelOnFirstSuccess" /\ outcome = Nil /\ ~succeeded

\* Whether the Manage call that handles this outcome invokes the canceller.
Cancels(outcome) ==
    CASE m = "CancelNeverFirstError" -> FALSE
      [] m = "CancelOnFirstError" -> Records(outcome)
      [] m = "CancelOnFirstSuccess" -> Succeeds(outcome)
      [] m = "CancelOnFirstComplete" -> Records(outcome)

\* Manager.Result()
Result ==
    IF m = "CancelOnFirstSuccess" /\ succeeded THEN Nil ELSE first

\* Whether Manage is itself the deferred call.  The closure defers a function
\* literal, and that literal calls m.Manage(ctx, CancellerFunc(cancel), err):
\* Manage is called by the deferred function, it is not the deferred function.
DirectlyDeferred == FALSE

\* recover() inside the Manage of Recover(inner) or Repanic(inner): it returns
\* the value of the panic that is unwinding the closure of worker i only in a
\* call that the unwinding itself made, and nil in every call further down.
Recovered(i) ==
    deco \in {"Recover", "Repanic"} /\ fault[i] /\ DirectlyDeferred

\* The outcome that the decorator hands to the inner policy: the FaultOutcome
\* of the panic it recovered, else the outcome it was called with.
Forwarded(i) == IF Recovered(i) THEN PanicError(i) ELSE err[i]

\* Whether Result() can re-raise: Repanic returns the FaultOutcome together
\* with Panic(), which raises the original value again.
CanPanic == deco = "Repanic" /\ Result.kind = "panic"

\* AccumulateManager.Manage after the inner call returned s: under the mutex,
\* grow Errors to s entries and store the outcome at index s-1.
Record(errors, s, outcome) ==
    LET grown == [j \in 1 .. (IF Len(errors) < s THEN s ELSE Len(errors)) |->
                     IF j <= Len(errors) THEN errors[j] ELSE Nil]
    IN [grown EXCEPT ![s] = outcome]

(***************************************************************************)
(* The closure that the entry point submits for worker i                   *)
(* (src/work.go:46-55, 98-107, 150-159).                                   *)
(***************************************************************************)

\* What the body of a test worker returns: context.Canceled when it checks
\* the done signal and finds it set, else its own outcome.
Outcome(i, own) == IF checking /\ Done THEN Canceled ELSE own

\* err = worker(ctx): the body counts its run and returns nil or its error.
BodyReturn(i) ==
    /\ ~crashed
    /\ wpc[i] = "body"
    /\ nested => ipc[i] = "returned"
    /\ \E own \in {Nil, Failed(i)} : err' = [err EXCEPT ![i] = Outcome(i, own)]
    /\ counts' = [counts EXCEPT ![i] = @ + 1]
    /\ wpc' = [wpc EXCEPT ![i] = "ret"]
    /\ UNCHANGED <<config, inner, pc, next, wg, fault, managed, sn, manager,
                   cancelled, callerDone, poolLive, result, crashed>>

\* The body panics after counting its run: err is never assigned, and the
\* deferred calls run while the panic unwinds.
BodyPanic(i) ==
    /\ ~crashed
    /\ wpc[i] = "body"
    /\ fault' = [fault EXCEPT ![i] = TRUE]
    /\ counts' = [counts EXCEPT ![i] = @ + 1]
    /\ wpc' = [wpc EXCEPT ![i] = "ret"]
    /\ UNCHANGED <<config, inner, pc, next, wg, err, managed, sn, manager,
                   cancelled, callerDone, poolLive, result, crashed>>

\* The deferred m.Manage(ctx, CancellerFunc(cancel), err), first half: the
\* policy decides with one compare-and-set, records the outcome if it won
\* and invokes the canceller if it is to.
ManageDecide(i) ==
    /\ ~crashed
    /\ wpc[i] = "ret"
    /\ decided' = (decided \/ Records(Forwarded(i)))
    /\ first' = (IF Records(Forwarded(i)) THEN Forwarded(i) ELSE first)
    /\ succeeded' = (succeeded \/ Succeeds(Forwarded(i)))
    /\ cancelled' = (cancelled \/ Cancels(Forwarded(i)))
    /\ wpc' = [wpc EXCEPT ![i] = "seq"]
    /\ UNCHANGED <<config, inner, pc, next, wg, err, fault, counts, managed, sn,
                   seq, Errors, callerDone, poolLive, result, crashed>>

\* A counter that is read and written in two operations: two calls that
\* overlap get the same number.
NextSeqRacy == IF \E j \in Workers : wpc[j] = "rec" THEN seq ELSE seq + 1

\* The sequence number of a Manage call: one atomic increment.
NextSeq == seq + 1

\* Manage, second half: the call takes its sequence number and returns it to
\* AccumulateManager.Manage (n := m.manager.Manage(...)).
ManageSeq(i) ==
    /\ ~crashed
    /\ wpc[i] = "seq"
    /\ seq' = NextSeq
    /\ sn' = [sn EXCEPT ![i] = NextSeq]
    /\ wpc' = [wpc EXCEPT ![i] = "rec"]
    /\ UNCHANGED <<config, inner, pc, next, wg, err, fault, counts, managed, decided,
                   first, succeeded, Errors, cancelled, callerDone, poolLive,
                   result, crashed>>

\* AccumulateManager.Manage stores the outcome under its mutex and returns.
Accumulate(i) ==
    /\ ~crashed
    /\ wpc[i] = "rec"
    /\ Errors' = Record(Errors, sn[i], err[i])
    /\ managed' = [managed EXCEPT ![i] = @ + 1]
    /\ wpc' = [wpc EXCEPT ![i] = "managed"]
    /\ UNCHANGED <<config, inner, pc, next, wg, err, fault, counts, sn, seq, decided,
                   first, succeeded, cancelled, callerDone, poolLive, result,
                   crashed>>

\* A closure that calls Manage after the body instead of deferring it: when
\* the body panics only wg.Done() runs.
WgDoneSkipsManage(i) ==
    /\ ~crashed
    /\ wpc[i] = "managed" \/ (wpc[i] = "ret" /\ fault[i])
    /\ wg' = wg - 1
    /\ wpc' = [wpc EXCEPT ![i] = "done"]
    /\ UNCHANGED <<config, inner, pc, next, err, fault, counts, managed, sn, manager,
                   cancelled, callerDone, poolLive, result, crashed>>

\* The deferred wg.Done(), which runs after the deferred Manage call.
WgDone(i) ==
    /\ ~crashed
    /\ wpc[i] = "managed"
    /\ wg' = wg - 1
    /\ wpc' = [wpc EXCEPT ![i] = "done"]
    /\ UNCHANGED <<config, inner, pc, next, err, fault, counts, managed, sn, manager,
                   cancelled, callerDone, poolLive, result, crashed>>

\* The closure returns to the Executer, which frees its slot or its task.  A
\* panic that nothing recovered leaves the task instead and ends the process.
Finish(i) ==
    /\ ~crashed
    /\ wpc[i] = "done"
    /\ wpc' = [wpc EXCEPT ![i] = "fin"]
    /\ crashed' = (fault[i] /\ ~Recovered(i))
    /\ UNCHANGED <<config, inner, pc, next, wg, err, fault, counts, managed, sn,
                   manager, cancelled, callerDone, poolLive, result>>

(***************************************************************************)
(* Group workers (src/work.go:68-72, 120-124, 173-177): the body of worker *)
(* i calls Work with ni workers of its own and the Executer of the outer   *)
(* run.  The inner run is the same code; its closure's deferred calls are  *)
(* taken as one step.                                                      *)
(***************************************************************************)

\* return Work(ctx, e, m, g...): the body enters the inner run, wg.Add(len(g)).
GroupCall(i) ==
    /\ ~crashed
    /\ nested
    /\ wpc[i] = "body"
    /\ ipc[i] = "idle"
    /\ iwg' = [iwg EXCEPT ![i] = ni]
    /\ ipc' = [ipc EXCEPT ![i] = IF ni = 0 THEN "wait" ELSE "loop"]
    /\ UNCHANGED <<config, pc, next, wg, worker, manager, cancelled,
                   callerDone, poolLive, result, crashed, inext, iwpc>>

\* e.Execute(func() {...}) for the next worker of the inner run.
InnerSubmit(i) ==
    /\ ~crashed
    /\ ipc[i] = "loop"
    /\ inext[i] < ni
    /\ iwpc' = [iwpc EXCEPT ![i][inext[i]] = "queued"]
    /\ inext' = [inext EXCEPT ![i] = @ + 1]
    /\ ipc' = [ipc EXCEPT ![i] = IF inext[i] + 1 = ni THEN "wait" ELSE "loop"]
    /\ UNCHANGED <<config, pc, next, wg, worker, manager, cancelled,
                   callerDone, poolLive, result, crashed, iwg>>

\* The shared Executer starts the action of worker j of the inner run.
InnerStart(i, j) ==
    /\ ~crashed
    /\ iwpc[i][j] = "queued"
    /\ CanStart
    /\ iwpc' = [iwpc EXCEPT ![i][j] = "body"]
    /\ UNCHANGED <<config, pc, next, wg, worker, manager, cancelled,
                   callerDone, poolLive, result, crashed, ipc, inext, iwg>>

\* The body of the inner worker returns; the deferred Manage and wg.Done().
InnerDone(i, j) ==
    /\ ~crashed
    /\ iwpc[i][j] = "body"
    /\ iwg' = [iwg EXCEPT ![i] = @ - 1]
    /\ iwpc' = [iwpc EXCEPT ![i][j] = "done"]
    /\ UNCHANGED <<config, pc, next, wg, worker, manager, cancelled,
                   callerDone, poolLive, result, crashed, ipc, inext>>

\* The inner closure returns to the Executer, which frees its slot or task.
InnerFinish(i, j) ==
    /\ ~crashed
    /\ iwpc[i][j] = "done"
    /\ iwpc' = [iwpc EXCEPT ![i][j] = "fin"]
    /\ UNCHANGED <<config, pc, next, wg, worker, manager, cancelled,
                   callerDone, poolLive, result, crashed, ipc, inext, iwg>>

\* wg.Wait() of the inner run returns, and the inner Work returns its result.
InnerWait(i) ==
    /\ ~crashed
    /\ ipc[i] = "wait"
    /\ iwg[i] = 0
    /\ ipc' = [ipc EXCEPT ![i] = "returned"]
    /\ UNCHANGED <<config, pc, next, wg, worker, manager, cancelled,
                   callerDone, poolLive, result, crashed, inext, iwg, iwpc>>

(***************************************************************************)
(* The calling task: Work, WorkFor (src/work.go:25-64, 77-116) and         *)
(* WorkChan (src/work.go:129-168).                                         *)
(***************************************************************************)

\* An Add that counts one worker too few.
WgAddTooFew ==
    /\ ~crashed
    /\ pc = "begin"
    /\ wg' = wg + (IF n = 0 THEN 0 ELSE n - 1)
    /\ pc' = (IF n = 0 THEN "wait" ELSE "loop")
    /\ UNCHANGED <<config, inner, next, worker, manager, cancelled, callerDone,
                   poolLive, result, crashed>>

\* wg.Add(len(g)), wg.Add(n)
WgAddN ==
    /\ ~crashed
    /\ pc = "begin"
    /\ wg' = wg + n
    /\ pc' = (IF n = 0 THEN "wait" ELSE "loop")
    /\ UNCHANGED <<config, inner, next, worker, manager, cancelled, callerDone,
                   poolLive, result, crashed>>

\* for w := range g: the next worker arrives on the channel.
ChanRecv ==
    /\ ~crashed
    /\ entry = "WorkChan"
    /\ pc = "loop"
    /\ next < n
    /\ pc' = "add"
    /\ UNCHANGED <<config, inner, next, wg, worker, manager, cancelled, callerDone,
                   poolLive, result, crashed>>

\* for w := range g: the channel is closed and empty, the loop ends.
ChanClosed ==
    /\ ~crashed
    /\ entry = "WorkChan"
    /\ pc = "loop"
    /\ next = n
    /\ pc' = "wait"
    /\ UNCHANGED <<config, inner, next, wg, worker, manager, cancelled, callerDone,
                   poolLive, result, crashed>>

\* A loop that submits the worker it received without counting it.
WgAdd1Forgotten ==
    /\ ~crashed
    /\ pc = "add"
    /\ pc' = "exec"
    /\ UNCHANGED <<config, inner, next, wg, worker, manager, cancelled, callerDone,
                   poolLive, result, crashed>>

\* wg.Add(1)
WgAdd1 ==
    /\ ~crashed
    /\ pc = "add"
    /\ wg' = wg + 1
    /\ pc' = "exec"
    /\ UNCHANGED <<config, inner, next, worker, manager, cancelled, callerDone,
                   poolLive, result, crashed>>

\* Where the submission loop is when the calling task is about to call Execute.
AtExecute == pc = (IF entry = "WorkChan" THEN "exec" ELSE "loop")

\* e.Execute(func() {...}) for the next worker, and the step of the loop.
Submit ==
    /\ ~crashed
    /\ AtExecute
    /\ next < n
    /\ Execute(next)
    /\ next' = next + 1
    /\ pc' = (IF entry = "WorkChan" THEN "loop"
              ELSE IF next + 1 = n THEN "wait" ELSE "loop")
    /\ UNCHANGED <<config, inner, wg, err, fault, counts, managed, sn, manager,
                   cancelled, callerDone, poolLive, result, crashed>>

\* A Wait that does not wait for the counter.
WaitReturnsAtOnce ==
    /\ ~crashed
    /\ pc = "wait"
    /\ pc' = "result"
    /\ UNCHANGED <<config, inner, next, wg, worker, manager, cancelled, callerDone,
                   poolLive, result, crashed>>

\* wg.Wait() returns once the counter is zero.
Wait ==
    /\ ~crashed
    /\ pc = "wait"
    /\ wg = 0
    /\ pc' = "result"
    /\ UNCHANGED <<config, inner, next, wg, worker, manager, cancelled, callerDone,
                   poolLive, result, crashed>>

\* An entry point whose deferred cancel is that of the scope it was given.
ReturnCancelsCaller ==
    /\ ~crashed
    /\ pc = "result"
    /\ result' = Result
    /\ callerDone' = TRUE
    /\ pc' = (IF CanPanic THEN "panicked" ELSE "returned")
    /\ UNCHANGED <<config, inner, next, wg, worker, manager, cancelled, poolLive,
                   crashed>>

\* An entry point that leaves without cancelling the scope it derived.
ReturnWithoutCancel ==
    /\ ~crashed
    /\ pc = "result"
    /\ result' = Result
    /\ pc' = (IF CanPanic THEN "panicked" ELSE "returned")
    /\ UNCHANGED <<config, inner, next, wg, worker, manager, cancelled, callerDone,
                   poolLive, crashed>>

\* If m.Result() has a Panic method the entry point calls it, and the panic
\* leaves the entry point on the calling task; else it returns m.Result().
\* The deferred cancel() of the child scope runs either way.
Return ==
    /\ ~crashed
    /\ pc = "result"
    /\ result' = Result
    /\ cancelled' = TRUE
    /\ pc' = (IF CanPanic THEN "panicked" ELSE "returned")
    /\ UNCHANGED <<config, inner, next, wg, worker, manager, callerDone, poolLive,
                   crashed>>

\* The caller cancels the scope it passed in, to which its Pool is bound.
CancelCaller ==
    /\ ~crashed
    /\ ~callerDone
    /\ callerDone' = TRUE
    /\ UNCHANGED <<config, inner, pc, next, wg, worker, manager, cancelled,
                   poolLive, result, crashed>>

\* The steps of the submitted closures whose bodies return.
Closure ==
    \E i \in Workers :
        \/ Start(i)
        \/ BodyReturn(i)
        \/ ManageDecide(i)
        \/ ManageSeq(i)
        \/ Accumulate(i)
        \/ WgDone(i)
        \/ Finish(i)

\* A worker body raises a fault.
Faults == \E i \in Workers : BodyPanic(i)

\* The steps of the Group workers' inner runs.
Groups ==
    \E i \in Workers :
        \/ GroupCall(i)
        \/ InnerSubmit(i)
        \/ InnerWait(i)
        \/ \E j \in Inner : InnerStart(i, j) \/ InnerDone(i, j) \/ InnerFinish(i, j)

\* The steps of the calling task.
Caller == WgAddN \/ ChanRecv \/ ChanClosed \/ WgAdd1 \/ Submit \/ Wait \/ Return

\* Every step of the program and of its caller.
Next == Caller \/ Closure \/ Groups \/ Faults \/ PoolExit \/ CancelCaller

\* A run of Group workers whose bodies return.
NextNested == Caller \/ Closure \/ Groups

\* A run whose workers may panic.
NextFault == Caller \/ Closure \/ Faults

\* A run whose caller may cancel its scope at any time.
NextCancel == Caller \/ Closure \/ CancelCaller

\* A run whose caller may cancel its scope, which dismantles its Pool.
NextPool == Caller \/ Closure \/ PoolExit \/ CancelCaller

\* A run whose workers may panic and whose caller may cancel its scope.
NextScopes == Caller \/ Closure \/ Faults \/ CancelCaller

\* Any entry point, Executer and policy, any worker, any caller.
Spec == Init /\ [][Next]_vars

\* The defaults: the Unbounded executer and the CancelNeverFirstError manager.
InitDefault ==
    InitWith(EntryPoints, {"Unbounded"}, {"CancelNeverFirstError"}, BOOLEAN)
SpecDefault == InitDefault /\ [][NextCancel]_vars

\* Workers that may panic, under every Executer and every policy.
InitFault == InitWith(EntryPoints, Executers, Managers, {TRUE})
SpecFault == InitFault /\ [][NextFault]_vars

\* Every policy, with the Unbounded executer as in the tests of the policies.
InitManagers == InitWith(EntryPoints, {"Unbounded"}, Managers, BOOLEAN)
SpecManagers == InitManagers /\ [][NextCancel]_vars

\* Every Executer under every policy; the Pool may be dismantled.
InitExec == InitWith(EntryPoints, Executers, Managers, {FALSE})
SpecExec == InitExec /\ [][NextPool]_vars

\* The same, with every task scheduled fairly: a step of the calling task, of
\* a closure or of the pool that stays possible is eventually taken.  The
\* caller is free never to cancel.
FairTasks ==
    /\ WF_vars(Caller)
    /\ \A i \in Workers :
         /\ WF_vars(Start(i))
         /\ WF_vars(BodyReturn(i))
         /\ WF_vars(ManageDecide(i))
         /\ WF_vars(ManageSeq(i))
         /\ WF_vars(Accumulate(i))
         /\ WF_vars(WgDone(i))
         /\ WF_vars(Finish(i))
Fairness == FairTasks /\ WF_vars(PoolExit)
FairGroups ==
    \A i \in Workers :
        /\ WF_vars(GroupCall(i))
        /\ WF_vars(InnerSubmit(i))
        /\ WF_vars(InnerWait(i))
        /\ \A j \in Inner :
             /\ WF_vars(InnerStart(i, j))
             /\ WF_vars(InnerDone(i, j))
             /\ WF_vars(InnerFinish(i, j))
FairExec == SpecExec /\ Fairness

\* CancelOnFirstError as TestCancelOnFirstError runs it.
InitFirstError ==
    InitWith(EntryPoints, {"Unbounded"}, {"CancelOnFirstError"}, BOOLEAN)
SpecFirstError == InitFirstError /\ [][NextCancel]_vars

\* CancelOnFirstSuccess as TestCancelOnFirstSuccess runs it.
InitFirstSuccess ==
    InitWith(EntryPoints, {"Unbounded"}, {"CancelOnFirstSuccess"}, BOOLEAN)
SpecFirstSuccess == InitFirstSuccess /\ [][NextCancel]_vars

\* Recover(CancelOnFirstError()) as TestRecoverManager runs it: workers that
\* may panic and that check the done signal.
InitRecover ==
    InitRun(EntryPoints, {"Unbounded"}, {"CancelOnFirstError"}, {"Recover"},
            {TRUE})
SpecRecover == InitRecover /\ [][NextFault]_vars

\* Repanic(CancelOnFirstError()) as TestRepanicManager runs it.
InitRepanic ==
    InitRun(EntryPoints, {"Unbounded"}, {"CancelOnFirstError"}, {"Repanic"},
            {TRUE})
SpecRepanic == InitRepanic /\ [][NextFault]_vars

\* Every policy, bare and decorated, with workers that check the done
\* signal and may fail or panic; the caller leaves its scope alone.
InitExit ==
    InitRun(EntryPoints, {"Unbounded"}, Managers, Decorators, {TRUE})
SpecExit == InitExit /\ [][NextFault]_vars

\* Every policy, bare and under Repanic, with workers that check the done
\* signal and may fail or panic, and a caller that may cancel its scope.
InitScopes ==
    InitRun(EntryPoints, {"Unbounded"}, Managers, {"None", "Repanic"}, {TRUE})
SpecScopes == InitScopes /\ [][NextScopes]_vars

\* The cancelling policies under Recover and Repanic, with workers that
\* check the done signal and may fail or panic, every task scheduled fairly.
InitAdvisory ==
    InitRun(EntryPoints, {"Unbounded"},
            {"CancelOnFirstError", "CancelOnFirstSuccess",
             "CancelOnFirstComplete"},
            {"Recover", "Repanic"}, {TRUE})
SpecAdvisory == InitAdvisory /\ [][NextFault]_vars
FairAdvisory == SpecAdvisory /\ FairTasks

\* Every Executer under every policy decorated with Recover or Repanic: the
\* worker bodies return or panic, the caller never cancels, so that a Pool
\* outlives the run, and every task is scheduled fairly.
InitTermination ==
    InitRun(EntryPoints, Executers, Managers, {"Recover", "Repanic"}, {FALSE})
SpecTermination == InitTermination /\ [][NextFault]_vars
FairTermination == SpecTermination /\ FairTasks

\* Group workers whose inner runs share the Bounded(k) or the Pool(scope, k)
\* of the outer run, every task scheduled fairly; the caller never cancels.
InitNested ==
    InitGroups(EntryPoints, {"Bounded", "Pool"}, Managers, {"None"}, {FALSE},
               {TRUE})
SpecNested == InitNested /\ [][NextNested]_vars
FairNested == SpecNested /\ FairTasks /\ FairGroups

\* CancelOnFirstComplete as TestCancelOnFirstComplete runs it.
InitFirstComplete ==
    InitWith(EntryPoints, {"Unbounded"}, {"CancelOnFirstComplete"}, BOOLEAN)
SpecFirstComplete == InitFirstComplete /\ [][NextCancel]_vars

(***************************************************************************)
(* The claims.                                                             *)
(***************************************************************************)

\* The workers whose Manage call has returned.
Managed == {i \in Workers : managed[i] >= 1}

\* The workers whose closure has decremented the completion counter.
Decremented == {i \in Workers : wpc[i] \in {"done", "fin"}}

\* The workers that the Executer holds or runs and that have not yet
\* decremented the completion counter.
InFlight == {i \in Workers : wpc[i] \in {"queued", "body", "ret", "seq", "rec", "managed"}}

\* C1: with the Unbounded executer and the CancelNeverFirstError manager no
\* worker body ever runs twice, and when Work, WorkFor or WorkChan has
\* returned every one of the n worker bodies has run exactly once; if every
\* outcome was nil the returned result is nil.
C1_EachWorkerOnce ==
    /\ \A i \in Workers : counts[i] <= 1
    /\ pc = "returned" =>
         /\ \A i \in Ids : counts[i] = 1
         /\ \A i \in Workers \ Ids : counts[i] = 0
         /\ (\A i \in Ids : err[i] = Nil) => result = Nil

\* C1's case: a run of two workers that both succeeded has returned.
C1_Witness ==
    /\ pc = "returned" /\ n = 2
    /\ \A i \in Ids : counts[i] = 1 /\ err[i] = Nil
    /\ result = Nil

\* C2: the entry point reads Result() and returns only when no submitted
\* worker is still queued, running or inside Manage, and whenever the
\* completion counter is zero no submitted worker is left before its
\* decrement: the last Manage call has returned by then.
C2_WaitsForAll ==
    /\ pc \in {"result", "returned"} =>
         /\ InFlight = {}
         /\ \A i \in Ids : managed[i] = 1 /\ wpc[i] \in {"done", "fin"}
    /\ wg = 0 => InFlight = {}

\* C2's case: Result() is about to be read after two workers were managed,
\* the second of them having waited for the slot of Bounded(1).
C2_Witness ==
    /\ pc = "result" /\ n = 2 /\ e = "Bounded" /\ k = 1
    /\ \A i \in Ids : managed[i] = 1

\* C3: Manage returns at most once per worker; a worker that has decremented
\* the completion counter has been managed before, also when its body
\* panicked; and when the counter is zero after the submission loop, every
\* one of the n workers has been managed exactly once.
C3_ManageOncePerWorker ==
    /\ \A i \in Workers : managed[i] <= 1
    /\ \A i \in Decremented : managed[i] = 1
    /\ \A i \in Workers : managed[i] = 1 => wpc[i] \in {"managed", "done", "fin"}
    /\ (pc \in {"wait", "result", "returned"} /\ wg = 0) =>
         /\ Managed = Ids
         /\ seq = n

\* C3's case: the counter is zero after a run in which a body panicked, and
\* the panicking worker was managed before it decremented the counter.
C3_Witness ==
    /\ pc = "wait" /\ wg = 0 /\ n = 2
    /\ \E i \in Ids : fault[i] /\ managed[i] = 1 /\ wpc[i] = "done"

\* C4: the sequence numbers that Manage has returned are pairwise distinct
\* and are exactly 1..N after N calls have taken theirs, and the recorder
\* holds each returned call's outcome at its own index: no entry overwritten;
\* once every call has returned, Errors has exactly N entries, none a hole.
C4_SequenceNumbers ==
    LET numbered == {i \in Workers : sn[i] # 0}
    IN /\ \A i, j \in numbered : i # j => sn[i] # sn[j]
       /\ {sn[i] : i \in numbered} = 1 .. Cardinality(numbered)
       /\ seq = Cardinality(numbered)
       /\ \A i \in Managed : sn[i] <= Len(Errors) /\ Errors[sn[i]] = err[i]
       /\ Managed = numbered => Len(Errors) = Cardinality(numbered)

\* C4's case: two Manage calls have returned, the later worker with the
\* smaller number, and the second call stored its failure at index 0.
C4_Witness ==
    /\ Managed = {0, 1}
    /\ sn[1] = 1 /\ sn[0] = 2
    /\ Errors = <<Failed(1), Nil>>

\* The worker bodies that are executing.
Running == {i \in Workers : wpc[i] = "body"}

\* C5: with Bounded(k) or Pool(scope, k) at most k worker bodies, and at
\* most k submitted actions, execute at the same instant; no body runs
\* twice, and when the entry point has returned every body has run once.
C5_AtMostKBodies ==
    /\ e \in {"Bounded", "Pool"} =>
         /\ Cardinality(Running) <= k
         /\ Cardinality(Active) <= k
    /\ \A i \in Workers : counts[i] <= 1
    /\ pc = "returned" => \A i \in Ids : counts[i] = 1

\* C5's case: the single task of Pool(scope, 1) runs one body while the
\* other submitted worker waits in the queue.
C5_Witness ==
    /\ e = "Pool" /\ k = 1 /\ n = 2
    /\ \E i, j \in Ids : wpc[i] = "body" /\ wpc[j] = "queued"

\* C6: every action submitted through Execute is eventually executed, and
\* no action is executed twice, also when a scope is cancelled while actions
\* are pending.
C6_EverySubmittedActionRuns ==
    /\ [](\A i \in Workers : counts[i] <= 1)
    /\ \A i \in Workers : (wpc[i] = "queued") ~> (counts[i] = 1)

\* C7: Execute never makes its caller wait: whenever the calling task is at
\* e.Execute with a worker to submit, the call can return at once, whatever
\* the slots or the tasks of the Executer are doing.
C7_ExecuteNeverBlocks ==
    (~crashed /\ AtExecute /\ next < n) => ENABLED Submit

\* C7's case: both workers have been submitted to Bounded(1): the second
\* Execute returned while the first worker held the only slot, and no
\* worker has finished.
C7_Witness ==
    /\ e = "Bounded" /\ k = 1 /\ n = 2 /\ next = 2
    /\ wpc[0] = "body" /\ wpc[1] = "queued"
    /\ \A i \in Ids : counts[i] = 0

\* The workers whose Manage call has made its decision.
Decided == {i \in Workers : wpc[i] \in {"seq", "rec", "managed", "done", "fin"}}

\* The workers of the run whose outcome is a failure.
Failures == {i \in Ids : err[i] # Nil}

\* Whether the returned result is the failure that got the smallest sequence
\* number among the failures of the run.
ResultIsFirstFailure ==
    \E i \in Failures : result = err[i] /\ \A j \in Failures : sn[i] <= sn[j]

\* C8: with CancelOnFirstError the canceller has been invoked once a Manage
\* call has handled a failure; the returned result is the failure with the
\* smallest sequence number among the failures of the run, and it is nil
\* only if every outcome was nil.
C8_FirstErrorBySequence ==
    /\ (\E i \in Decided : err[i] # Nil) => cancelled
    /\ pc = "returned" =>
         IF Failures = {} THEN result = Nil ELSE ResultIsFirstFailure

\* C9: with CancelOnFirstError and workers that check the done signal right
\* before they return, in a run whose caller did not cancel, the recorded
\* outcomes in the order of their sequence numbers are nil up to the first
\* failure, and every outcome after it is context.Canceled.
C9_OnlyCanceledAfterFirstError ==
    (checking /\ ~callerDone /\ pc = "returned") =>
        \A p, q \in 1 .. Len(Errors) :
            (p < q /\ Errors[p] # Nil) => Errors[q] = Canceled

\* C10: with CancelOnFirstSuccess, in a run of at least one worker, the
\* returned result is nil exactly if some outcome was nil; it is the failure
\* with the smallest sequence number if none was; and the canceller has been
\* invoked by a Manage call exactly if a Manage call has handled a nil outcome.
C10_NilIffSomeSuccess ==
    /\ (pc = "returned" /\ n >= 1) =>
         /\ result = Nil <=> (\E i \in Ids : err[i] = Nil)
         /\ (\A i \in Ids : err[i] # Nil) => ResultIsFirstFailure
    /\ pc # "returned" =>
         (cancelled <=> (\E i \in Decided : err[i] = Nil))

\* C11: with CancelOnFirstComplete the returned result of a run of at least
\* one worker is the outcome of the Manage call that was given sequence
\* number 1, whether nil or not, and the canceller has been invoked by the
\* time that call has its number.
C11_FirstCompleteBySequence ==
    /\ (pc = "returned" /\ n >= 1) =>
         \E i \in Ids : sn[i] = 1 /\ result = err[i]
    /\ \A i \in Workers : sn[i] = 1 => cancelled

\* C12: with CancelNeverFirstError no Manage call invokes the canceller: in
\* a run whose caller has not cancelled, the done signal of the child scope
\* is not set before the entry point returns; and the returned result is the
\* failure with the smallest sequence number, or nil if every outcome was nil.
C12_NeverCancels ==
    /\ (~callerDone /\ pc # "returned") => ~Done
    /\ pc = "returned" =>
         IF Failures = {} THEN result = Nil ELSE ResultIsFirstFailure

\* The workers whose body raised a fault.
Faulted == {i \in Ids : fault[i]}

\* Whether worker i faulted and no other worker of the run failed by itself:
\* the FaultOutcome of worker i is then the first failure of the run.
OnlyFault(i) ==
    /\ i \in Faulted
    /\ \A j \in Ids \ {i} : ~fault[j] /\ err[j] \in {Nil, Canceled}

\* C13: with Recover(CancelOnFirstError) a fault raised by a worker body does
\* not leave the worker's task: the process goes on, the faulting worker is
\* managed before it decrements the counter, the inner policy has recorded a
\* failure and cancelled once it has decided on the faulting worker, and the
\* entry point returns, never re-raises, after every body has run once, with
\* the FaultOutcome of the faulting worker when that is the first failure.
C13_RecoverContainsFault ==
    /\ ~crashed
    /\ pc # "panicked"
    /\ \A i \in Faulted \cap Decremented : managed[i] = 1
    /\ \A i \in Faulted \cap Decided : decided /\ cancelled
    /\ pc = "returned" =>
         /\ \A i \in Ids : counts[i] = 1
         /\ \A i \in Ids : OnlyFault(i) => result = PanicError(i)

\* C14: with Repanic(CancelOnFirstError) a fault raised by a worker body does
\* not leave the worker's task; the entry point re-raises only when every
\* worker of the run has run once, been managed and decremented the counter,
\* and what it re-raises is the value of a worker that faulted; it does not
\* return normally when the fault is the first failure of the run.
C14_RepanicAfterDrain ==
    /\ ~crashed
    /\ pc = "panicked" =>
         /\ \A i \in Ids : counts[i] = 1 /\ managed[i] = 1
         /\ InFlight = {}
         /\ result.kind = "panic" /\ result.index \in Faulted
    /\ \A i \in Ids : OnlyFault(i) =>
         /\ pc # "returned"
         /\ pc = "panicked" => result = PanicError(i)

\* C15: once Work, WorkFor or WorkChan has left, by returning a nil or an
\* error result or by re-raising, the child scope it derived is cancelled
\* and its done signal is set, also when no Manage call invoked the canceller.
C15_ChildCancelledOnExit ==
    pc \in {"returned", "panicked"} => cancelled /\ Done

\* C15's case: a run of two workers under CancelNeverFirstError, whose
\* caller did not cancel, has returned an error.
C15_Witness ==
    /\ pc = "returned" /\ m = "CancelNeverFirstError" /\ n = 2
    /\ ~callerDone /\ result # Nil
    /\ cancelled

\* C16: neither the canceller nor a fault skips work.  No body runs twice,
\* when the entry point has left every one of the n bodies has run once and
\* been managed, and every worker of the run is in the end submitted, run
\* once and managed, whatever was cancelled and whichever worker faulted.
C16_NoWorkSkipped ==
    /\ [](\A i \in Workers : counts[i] <= 1)
    /\ [](pc \in {"returned", "panicked"} =>
            \A i \in Ids : counts[i] = 1 /\ managed[i] = 1)
    /\ \A i \in Workers : (i \in Ids) ~> (counts[i] = 1 /\ managed[i] = 1)

\* C17: in WorkChan the completion counter is never negative and always
\* counts every received worker that has not decremented it: the one about to
\* be submitted and those in flight.  The loop can receive the next worker
\* whenever one is left, also after the canceller has fired, and WorkChan
\* reads the result only when the channel is closed and drained and every
\* received worker has run once and been managed.
C17_WorkChanCountsLazily ==
    entry = "WorkChan" =>
        /\ wg >= 0
        /\ wg = Cardinality(InFlight) + (IF pc = "exec" THEN 1 ELSE 0)
        /\ (~crashed /\ pc = "loop" /\ next < n) => ENABLED ChanRecv
        /\ pc \in {"result", "returned"} =>
             /\ next = n
             /\ \A i \in Ids : counts[i] = 1 /\ managed[i] = 1

\* C17's case: WorkChan has received and counted its second worker after the
\* first one failed, cancelled the run under CancelOnFirstError and finished.
C17_Witness ==
    /\ entry = "WorkChan" /\ m = "CancelOnFirstError" /\ n = 2
    /\ wpc[0] = "fin" /\ err[0] = Failed(0) /\ cancelled
    /\ pc = "exec" /\ next = 1 /\ wg = 1

\* C18: no step of a run cancels the scope that the caller passed in: its
\* done signal is set by the caller's own cancel only, whatever the policy
\* cancels and whichever way the entry point leaves; and once the caller has
\* cancelled its scope, the done signal of the run's child scope is set.
C18_CallerScopeUntouched ==
    /\ [][callerDone' => (callerDone \/ CancelCaller)]_vars
    /\ [](callerDone => Done)

\* C18's case: a run of two workers has returned after a Manage call invoked
\* the canceller, and the caller's scope is not cancelled.
C18_Witness ==
    /\ pc = "returned" /\ n = 2 /\ m = "CancelOnFirstError"
    /\ decided /\ cancelled
    /\ ~callerDone

\* C19: when every worker body ends, the Executer outlives the run and the
\* tasks are scheduled fairly, the completion counter reaches zero after the
\* submission loop and the entry point leaves: it returns or it re-raises.
C19_EventuallyLeaves ==
    /\ <>(pc \in {"wait", "result", "returned", "panicked"} /\ wg = 0)
    /\ <>(pc \in {"returned", "panicked"})

\* C20: when the workers of a run are Group workers whose inner runs share
\* the Bounded(k) or Pool(scope, k) executer of the outer run and every leaf
\* body returns, the outer entry point eventually returns, under fair
\* scheduling, for every k and every number of outer and inner workers.
C20_NestedRunsReturn == <>(pc = "returned")

====
